---- MODULE Spec2Model ----
(***************************************************************************)
(* The ledger engine of the banking backend: account balances, transaction *)
(* rows and the request sessions that mutate them.                         *)
(*                                                                         *)
(* Committed database state is `accounts` and `transactions`.  Every       *)
(* request owns one SQLAlchemy Session (app/db/session.py: autocommit off, *)
(* autoflush off, expire_on_commit off).  A session keeps an identity map  *)
(* of the rows it has loaded (`cache`): a later query for the same row     *)
(* returns the object already loaded, with the attribute values read at    *)
(* the first load, until db.refresh() reloads it.  A row that was flushed  *)
(* but not committed (`flushed`) is invisible to the other sessions and is *)
(* discarded when the request ends without a commit (get_db: db.close()).  *)
(* One action is one database round trip together with the in-memory work  *)
(* that follows it; requests of different sessions interleave between      *)
(* round trips.                                                            *)
(***************************************************************************)
EXTENDS Integers, FiniteSets, Sequences, TLC

VARIABLES
    accounts,       \* committed rows of table accounts: id -> row
    transactions,   \* committed rows of table transactions (a set of rows)
    next_id,        \* the id the transactions sequence hands out next
    pc,             \* per session: where its request stands
    call,           \* per session: the operation being served and its arguments
    cache,          \* per session: identity map, account id -> loaded row
    row,            \* per session: the Transaction object of the request
    flushed,        \* per session: row was INSERTed but is not committed yet
    response,       \* the outcome of the call that ended last
    deltas,         \* history: the balance writes committed so far
    audit_logs,     \* committed rows of table audit_logs
    pending_audit   \* per session: audit rows INSERTed (flushed), not committed

vars == <<accounts, transactions, next_id, pc, call, cache, row, flushed, response,
          deltas, audit_logs, pending_audit>>

dbvars == <<accounts, transactions, next_id, deltas, audit_logs>>

----------------------------------------------------------------------------
(* Bounds of the model *)

MaxAmount == 2
MaxTxns == 2
InitialBalance == 2
\* bits of the significand of a balance (Column(Float): a binary floating-point
\* number, 53 bits in the double the code uses); amounts are counted in units
\* of the smallest amount, so every amount below 2^MantissaBits is exact
MantissaBits == 3
\* accounts created on top of the existing ones
MaxAccounts == 2

Sessions == {"s1", "s2"}
AccountIds == {1, 2}
\* ids a caller may pass: the existing accounts and one id no account has
RequestIds == AccountIds \cup {3}
\* amounts a caller may pass, the non-positive ones included
Amounts == (0 - InitialBalance - 1) .. MaxAmount
Currencies == {"USD", "EUR"}

NoRow == [id |-> 0]
NotLoaded == [loaded |-> FALSE]
NoCall == [op |-> "none"]

----------------------------------------------------------------------------
(* Sessions *)

\* db.query(Account).filter(Account.id == id).first(): the identity map wins
\* over the row just fetched for an object the session has already loaded
Get(s, id) ==
    IF cache[s][id] # NotLoaded THEN cache[s][id] ELSE accounts[id]

\* the identity map after Get(s, id)
Loaded(s, id) == [cache[s] EXCEPT ![id] = Get(s, id)]

EmptyCache == [a \in AccountIds |-> NotLoaded]

\* the request ends with an error: nothing it flushed survives db.close()
Raise(s, err) ==
    /\ pc' = [pc EXCEPT ![s] = "idle"]
    /\ response' = [result |-> err, id |-> 0, status |-> "none"]
    /\ call' = [call EXCEPT ![s] = NoCall]
    /\ cache' = [cache EXCEPT ![s] = EmptyCache]
    /\ row' = [row EXCEPT ![s] = NoRow]
    /\ flushed' = [flushed EXCEPT ![s] = FALSE]
    /\ pending_audit' = [pending_audit EXCEPT ![s] = {}]

\* the request returns its Transaction object to the caller; get_db closes the
\* session without a commit, so what was flushed after the last commit (the
\* audit rows of log_action) is rolled back
Return(s, txn) ==
    /\ pc' = [pc EXCEPT ![s] = "idle"]
    /\ response' = [result |-> "ok", id |-> txn.id, status |-> txn.status]
    /\ call' = [call EXCEPT ![s] = NoCall]
    /\ cache' = [cache EXCEPT ![s] = EmptyCache]
    /\ row' = [row EXCEPT ![s] = NoRow]
    /\ flushed' = [flushed EXCEPT ![s] = FALSE]
    /\ pending_audit' = [pending_audit EXCEPT ![s] = {}]

----------------------------------------------------------------------------
(* TransactionService: validation *)

\* a service that lets every amount through
NonPositiveUnchecked(amount) == FALSE

\* a check that refuses the negative amounts only
NegativeOnly(amount) == amount < 0

NonPositive(amount) == amount <= 0

InsufficientFunds(balance, amount) == balance < amount

\* the default of TransactionCreate.status, used when no status is passed
SchemaDefaultStatus == "pending"

\* status=TransactionStatus.COMPLETED passed to TransactionCreate
CreatedStatus == "completed"

\* TransactionCreate + create_with_reference_id: the row as flushed
NewRow(type, amount, currency, account_id, recipient_account_id) ==
    [id |-> next_id, api |-> "service", transaction_type |-> type,
     amount |-> amount, currency |-> currency, status |-> CreatedStatus,
     account_id |-> account_id, recipient_account_id |-> recipient_account_id]

\* the checks of create_deposit / create_withdrawal / create_payment on the
\* account object, in the order of the code; "ok" when all pass
AccountChecks(op, acct, amount, currency) ==
    IF ~acct.is_active THEN "inactive"
    ELSE IF currency # acct.currency THEN "currency"
    ELSE IF op # "deposit" /\ InsufficientFunds(acct.balance, amount) THEN "insufficient"
    ELSE "ok"

----------------------------------------------------------------------------
(* Float arithmetic on balances *)

RECURSIVE Ulp(_, _)
\* the spacing of the representable numbers around x >= 0
Ulp(x, step) ==
    IF x < (2 ^ MantissaBits) * step THEN step ELSE Ulp(x, 2 * step)

\* the representable number nearest to x, ties to the even significand
Round(x) ==
    LET ax == IF x < 0 THEN 0 - x ELSE x
        step == Ulp(ax, 1)
        q == ax \div step
        r == ax % step
        up == 2 * r > step \/ (2 * r = step /\ q % 2 = 1)
        m == (IF up THEN q + 1 ELSE q) * step
    IN  IF x < 0 THEN 0 - m ELSE m

\* account.balance + amount on floats
FloatAdd(x, y) == Round(x + y)

----------------------------------------------------------------------------
(* AccountService.update_balance *)

\* an UPDATE relative to the stored balance: SET balance = balance + amount
NewBalanceInPlace(cached, current, amount) == FloatAdd(current, amount)

\* the value update_balance writes: the balance of the session's object plus
\* the amount
NewBalance(cached, current, amount) == FloatAdd(cached, amount)

\* audit_repository.log_action of update_balance: the row it adds and flushes
BalanceAudit(id, txn, amount) ==
    [entity_type |-> "account", entity_id |-> id, txn |-> txn, amount |-> amount]

\* audit_repository.log_action of create_*: the row it adds and flushes
TransactionAudit(txn) ==
    [entity_type |-> "transaction", entity_id |-> txn.id, txn |-> txn.id,
     amount |-> txn.amount]

\* a commit that rewrites the audit table with what the session holds
CommittedAuditOverwritten(committed, pending) == pending

\* db.commit(): the audit rows the session has flushed become committed rows
CommittedAudit(committed, pending) == committed \cup pending

\* the commit inside account_repository.update: the balance UPDATE together
\* with whatever the session has flushed, then db.refresh(db_obj)
CommitBalance(s, id, amount) ==
    LET new_balance == NewBalance(Get(s, id).balance, accounts[id].balance, amount)
        txn == row[s]
    IN  /\ accounts' = [accounts EXCEPT ![id].balance = new_balance]
        /\ transactions' = IF flushed[s] THEN transactions \cup {txn} ELSE transactions
        /\ deltas' = deltas \cup {[txn |-> txn.id, account |-> id, amount |-> amount]}
        /\ audit_logs' = CommittedAudit(audit_logs, pending_audit[s])

\* db.refresh(db_obj) after the commit: the session's object is reloaded, and
\* nothing of the session is left uncommitted
Refresh(s, id) ==
    /\ cache' = [cache EXCEPT ![s][id] = accounts'[id]]
    /\ flushed' = [flushed EXCEPT ![s] = FALSE]

WouldBeNegative(s, id, amount) == FloatAdd(Get(s, id).balance, amount) < 0

----------------------------------------------------------------------------
(* TransactionService.create_deposit / create_withdrawal / create_payment *)

SingleOps == {"deposit", "withdrawal", "payment"}

TypeOf(op) == op

Signed(op, amount) == IF op = "deposit" THEN amount ELSE 0 - amount

\* validation, reference id and INSERT (flush)
ServiceBegin(s, op, id, amount, currency) ==
    /\ pc[s] = "idle"
    /\ next_id <= MaxTxns
    /\ IF NonPositive(amount) THEN Raise(s, "amount") /\ UNCHANGED dbvars
       ELSE IF id \notin AccountIds THEN Raise(s, "not_found") /\ UNCHANGED dbvars
       ELSE LET acct == Get(s, id)
                err == AccountChecks(op, acct, amount, currency)
            IN  IF err # "ok" THEN Raise(s, err) /\ UNCHANGED dbvars
                ELSE /\ cache' = [cache EXCEPT ![s] = Loaded(s, id)]
                     /\ row' = [row EXCEPT ![s] = NewRow(TypeOf(op), amount, currency, id, 0)]
                     /\ flushed' = [flushed EXCEPT ![s] = TRUE]
                     /\ next_id' = next_id + 1
                     /\ call' = [call EXCEPT ![s] =
                            [op |-> op, account_id |-> id, amount |-> amount]]
                     /\ pc' = [pc EXCEPT ![s] = "update_balance"]
                     /\ UNCHANGED <<accounts, transactions, deltas, response,
                                    audit_logs, pending_audit>>

\* update_balance, the audit entries and the return
ServiceUpdateBalance(s) ==
    /\ pc[s] = "update_balance"
    /\ LET id == call[s].account_id
           amount == Signed(call[s].op, call[s].amount)
       IN  IF WouldBeNegative(s, id, amount)
           THEN Raise(s, "insufficient") /\ UNCHANGED dbvars
           ELSE /\ CommitBalance(s, id, amount)
                /\ Return(s, row[s])
                /\ UNCHANGED next_id

----------------------------------------------------------------------------
(* TransactionService.create_transfer *)

\* amount check, source account lookup and its active check
TransferBegin(s, source, destination, amount, currency) ==
    /\ pc[s] = "idle"
    /\ next_id <= MaxTxns
    /\ UNCHANGED <<dbvars, row, flushed>>
    /\ IF NonPositive(amount) THEN Raise(s, "amount")
       ELSE IF source \notin AccountIds THEN Raise(s, "not_found")
       ELSE IF ~Get(s, source).is_active THEN Raise(s, "inactive")
       ELSE /\ cache' = [cache EXCEPT ![s] = Loaded(s, source)]
            /\ call' = [call EXCEPT ![s] =
                   [op |-> "transfer", account_id |-> source,
                    recipient_account_id |-> destination,
                    amount |-> amount, currency |-> currency]]
            /\ pc' = [pc EXCEPT ![s] = "transfer_destination"]
            /\ UNCHANGED <<response, pending_audit>>

\* the checks of create_transfer once both account objects are at hand
TransferChecks(src, dst, amount, currency) ==
    IF ~dst.is_active THEN "inactive"
    ELSE IF currency # src.currency THEN "currency"
    ELSE IF currency # dst.currency THEN "currency"
    ELSE IF InsufficientFunds(src.balance, amount) THEN "insufficient"
    ELSE "ok"

\* destination lookup, remaining checks, reference id and INSERT (flush)
TransferValidate(s) ==
    /\ pc[s] = "transfer_destination"
    /\ LET source == call[s].account_id
           destination == call[s].recipient_account_id
       IN  IF destination \notin AccountIds
           THEN Raise(s, "not_found") /\ UNCHANGED dbvars
           ELSE LET err == TransferChecks(Get(s, source), Get(s, destination),
                                          call[s].amount, call[s].currency)
                IN  IF err # "ok" THEN Raise(s, err) /\ UNCHANGED dbvars
                    ELSE /\ cache' = [cache EXCEPT ![s] = Loaded(s, destination)]
                         /\ row' = [row EXCEPT ![s] =
                                NewRow("transfer", call[s].amount, call[s].currency,
                                       source, destination)]
                         /\ flushed' = [flushed EXCEPT ![s] = TRUE]
                         /\ next_id' = next_id + 1
                         /\ pc' = [pc EXCEPT ![s] = "transfer_source"]
                         /\ UNCHANGED <<accounts, transactions, deltas, call, response,
                                        audit_logs, pending_audit>>

\* update_balance(source_account_id, -amount) and its audit row
TransferDebit(s) ==
    /\ pc[s] = "transfer_source"
    /\ LET id == call[s].account_id
           amount == 0 - call[s].amount
       IN  IF WouldBeNegative(s, id, amount)
           THEN Raise(s, "insufficient") /\ UNCHANGED dbvars
           ELSE /\ CommitBalance(s, id, amount)
                /\ Refresh(s, id)
                /\ pending_audit' = [pending_audit EXCEPT ![s] =
                       {BalanceAudit(id, row[s].id, amount)}]
                /\ pc' = [pc EXCEPT ![s] = "transfer_credit"]
                /\ UNCHANGED <<next_id, call, row, response>>

\* update_balance(destination_account_id, +amount), the audit entry, the return
TransferCredit(s) ==
    /\ pc[s] = "transfer_credit"
    /\ LET id == call[s].recipient_account_id
           amount == call[s].amount
       IN  IF WouldBeNegative(s, id, amount)
           THEN Raise(s, "insufficient") /\ UNCHANGED dbvars
           ELSE /\ CommitBalance(s, id, amount)
                /\ Return(s, row[s])
                /\ UNCHANGED next_id

----------------------------------------------------------------------------
(* AccountService.deactivate / reactivate: a request of its own, one commit *)

\* account_repository.update(db_obj, {"is_active": active}): only the changed
\* column is written
SetActive(id, active) ==
    /\ accounts[id].is_active # active
    /\ accounts' = [accounts EXCEPT ![id].is_active = active]
    /\ UNCHANGED <<transactions, next_id, deltas, pc, call, cache, row, flushed,
                   response, audit_logs, pending_audit>>

Deactivate(id) == SetActive(id, FALSE)

Reactivate(id) == SetActive(id, TRUE)

----------------------------------------------------------------------------
(* AccountService.update: a request of its own, one commit *)

\* account_repository.update(db_obj, obj_in.dict(exclude_unset=True)) with an
\* AccountUpdate that sets currency: the column is written like any other
UpdateAccount(id, currency) ==
    /\ accounts[id].currency # currency
    /\ accounts' = [accounts EXCEPT ![id].currency = currency]
    /\ UNCHANGED <<transactions, next_id, deltas, pc, call, cache, row, flushed,
                   response, audit_logs, pending_audit>>

----------------------------------------------------------------------------
(* TransactionService.update_transaction_status: a request of its own *)

\* class TransactionStatus of app/db/models/transaction.py
TransactionStatus == {"pending", "completed", "failed", "cancelled"}

\* transaction_repository.update(db_obj, {"status": status}), no check of the
\* status the row has
UpdateTransactionStatus(id, status) ==
    /\ \E t \in transactions :
          /\ t.id = id
          /\ t.status # status
          /\ transactions' = (transactions \ {t}) \cup {[t EXCEPT !.status = status]}
    /\ UNCHANGED <<accounts, next_id, deltas, pc, call, cache, row, flushed,
                   response, audit_logs, pending_audit>>

----------------------------------------------------------------------------
(* TransactionRepository.get_transaction_stats over the committed rows; every *)
(* row of the model lies inside the period of the query                      *)

\* an inflow query without the filter on Transaction.status
InflowRowsAnyStatus(account_id) ==
    {t \in transactions :
        /\ t.account_id = account_id
        /\ \/ t.transaction_type = "deposit"
           \/ /\ t.transaction_type = "transfer"
              /\ t.recipient_account_id = account_id}

\* the rows the inflow query sums
InflowRows(account_id) ==
    {t \in transactions :
        /\ t.account_id = account_id
        /\ t.status = "completed"
        /\ \/ t.transaction_type = "deposit"
           \/ /\ t.transaction_type = "transfer"
              /\ t.recipient_account_id = account_id}

\* the rows the outflow query sums
OutflowRows(account_id) ==
    {t \in transactions :
        /\ t.account_id = account_id
        /\ t.status = "completed"
        /\ \/ t.transaction_type \in {"withdrawal", "payment", "fee"}
           \/ /\ t.transaction_type = "transfer"
              /\ t.recipient_account_id # account_id}

RECURSIVE SumOf(_)
\* func.sum(Transaction.amount) ... .scalar() or 0.0
SumOf(rows) ==
    IF rows = {} THEN 0
    ELSE LET t == CHOOSE x \in rows : TRUE IN t.amount + SumOf(rows \ {t})

total_inflow(account_id) == SumOf(InflowRows(account_id))

total_outflow(account_id) == SumOf(OutflowRows(account_id))

\* a net flow that adds the two totals
net_flow_added(account_id) == total_inflow(account_id) + total_outflow(account_id)

\* "net_flow": total_inflow - total_outflow
net_flow(account_id) == total_inflow(account_id) - total_outflow(account_id)

\* class TransactionType of app/db/models/transaction.py
TransactionType == {"deposit", "withdrawal", "transfer", "payment", "fee", "interest"}

\* the rows a count query counts for one type
CountRows(account_id, t_type) ==
    {t \in transactions :
        /\ t.account_id = account_id
        /\ t.status = "completed"
        /\ t.transaction_type = t_type}

\* the dict get_transaction_stats returns (period_days is its argument)
get_transaction_stats(account_id) ==
    [total_inflow |-> total_inflow(account_id),
     total_outflow |-> total_outflow(account_id),
     net_flow |-> net_flow(account_id),
     transaction_counts |->
        [t_type \in TransactionType |-> Cardinality(CountRows(account_id, t_type))]]

----------------------------------------------------------------------------
(* The repository API of app/db/repositories/base.py, the one               *)
(* scripts/demo_data.py drives: TransactionRepository.create_deposit,       *)
(* create_withdrawal, create_transfer over AccountRepository.deposit and    *)
(* withdraw.  The Transaction object is added to the session first and is   *)
(* INSERTed by the first commit of the call, with the column default        *)
(* "pending" unless fail() set its status before.                           *)

RepoOps == {"deposit", "withdrawal", "transfer"}

\* requests that have added a Transaction the sequence has not numbered yet
Unnumbered == {s \in Sessions : pc[s] # "idle" /\ row[s] # NoRow /\ row[s].id = 0}

\* Transaction(...) of the repository API, before its INSERT
RepoRow(type, amount, source, destination) ==
    [id |-> 0, api |-> "repository", transaction_type |-> type,
     amount |-> amount, status |-> "pending",
     source_account_id |-> source, destination_account_id |-> destination]

\* Account.withdraw raises ValueError
WithdrawRaises(balance, amount) == amount <= 0 \/ amount > balance

\* Account.deposit raises ValueError
DepositRaises(amount) == amount <= 0

\* ForeignKey("accounts.id") on source_account_id and destination_account_id:
\* the INSERT of a row that names an account that does not exist is refused
ForeignKeyViolated(txn) ==
    \E id \in {txn.source_account_id, txn.destination_account_id} :
        id # 0 /\ id \notin AccountIds

\* except ValueError: transaction.fail(); db.commit(); raise -- the row is
\* INSERTed, or UPDATEd when an earlier commit of the call inserted it; an
\* IntegrityError of the INSERT rolls the commit back
FailAndCommit(s, txn, err) ==
    LET numbered == IF txn.id = 0 THEN [txn EXCEPT !.id = next_id] ELSE txn
        failed == [numbered EXCEPT !.status = "failed"]
    IN  IF txn.id = 0 /\ ForeignKeyViolated(txn)
        THEN Raise(s, "integrity") /\ UNCHANGED dbvars
        ELSE /\ transactions' = {t \in transactions : t.id # failed.id} \cup {failed}
             /\ next_id' = IF txn.id = 0 THEN next_id + 1 ELSE next_id
             /\ Raise(s, err)
             /\ UNCHANGED <<accounts, deltas, audit_logs>>

\* the first statement of the call: the account is looked up and its balance
\* changed in memory (Account.deposit / Account.withdraw)
RepoBegin(s, op, source, destination, amount) ==
    /\ pc[s] = "idle"
    /\ next_id + Cardinality(Unnumbered) <= MaxTxns
    /\ LET id == IF op = "deposit" THEN destination ELSE source
           txn == RepoRow(op, amount,
                          IF op = "deposit" THEN 0 ELSE source,
                          IF op = "withdrawal" THEN 0 ELSE destination)
           err == IF id \notin AccountIds THEN "not_found"
                  ELSE IF op = "deposit" /\ DepositRaises(amount) THEN "amount"
                  ELSE IF op # "deposit" /\ amount <= 0 THEN "amount"
                  ELSE IF op # "deposit" /\ WithdrawRaises(Get(s, id).balance, amount)
                       THEN "insufficient"
                  ELSE "ok"
       IN  IF err # "ok"
           THEN IF op = "deposit"
                THEN Raise(s, err) /\ UNCHANGED dbvars
                ELSE FailAndCommit(s, txn, err)
           ELSE /\ cache' = [cache EXCEPT ![s][id] =
                       [Get(s, id) EXCEPT !.balance = FloatAdd(@, Signed(op, amount))]]
                /\ row' = [row EXCEPT ![s] = txn]
                /\ call' = [call EXCEPT ![s] =
                       [op |-> op, account_id |-> id,
                        recipient_account_id |-> destination, amount |-> amount]]
                /\ pc' = [pc EXCEPT ![s] = "repo_commit"]
                /\ UNCHANGED <<dbvars, flushed, response, pending_audit>>

\* db.add(account); db.commit(); db.refresh(account) of AccountRepository
RepoCommit(s) ==
    /\ pc[s] \in {"repo_commit", "repo_commit_destination"}
    /\ LET id == IF pc[s] = "repo_commit" THEN call[s].account_id
                 ELSE call[s].recipient_account_id
           txn == IF row[s].id = 0 THEN [row[s] EXCEPT !.id = next_id] ELSE row[s]
           amount == IF pc[s] = "repo_commit" THEN Signed(call[s].op, call[s].amount)
                     ELSE call[s].amount
       IN  IF row[s].id = 0 /\ ForeignKeyViolated(row[s])
           THEN Raise(s, "integrity") /\ UNCHANGED dbvars
           ELSE /\ accounts' = [accounts EXCEPT ![id].balance = cache[s][id].balance]
                /\ transactions' = transactions \cup {txn}
                /\ next_id' = IF row[s].id = 0 THEN next_id + 1 ELSE next_id
                /\ deltas' = deltas \cup
                       {[txn |-> txn.id, account |-> id, amount |-> amount]}
                /\ row' = [row EXCEPT ![s] = txn]
                /\ cache' = [cache EXCEPT ![s][id] = accounts'[id]]
                /\ pc' = [pc EXCEPT ![s] =
                       IF call[s].op = "transfer" /\ pc[s] = "repo_commit"
                       THEN "repo_transfer_destination" ELSE "repo_complete"]
                /\ UNCHANGED <<call, flushed, response, audit_logs, pending_audit>>

\* create_transfer: account_repository.deposit(destination), up to its commit
RepoTransferDestination(s) ==
    /\ pc[s] = "repo_transfer_destination"
    /\ LET id == call[s].recipient_account_id
       IN  IF id \notin AccountIds
           THEN FailAndCommit(s, row[s], "not_found")
           ELSE IF DepositRaises(call[s].amount)
           THEN FailAndCommit(s, row[s], "amount")
           ELSE /\ cache' = [cache EXCEPT ![s][id] =
                       [Get(s, id) EXCEPT !.balance = FloatAdd(@, call[s].amount)]]
                /\ pc' = [pc EXCEPT ![s] = "repo_commit_destination"]
                /\ UNCHANGED <<dbvars, call, row, flushed, response, pending_audit>>

\* transaction.complete(); db.commit(); db.refresh(transaction); return
RepoComplete(s) ==
    /\ pc[s] = "repo_complete"
    /\ LET txn == [row[s] EXCEPT !.status = "completed"]
       IN  /\ transactions' = {t \in transactions : t.id # txn.id} \cup {txn}
           /\ Return(s, txn)
           /\ UNCHANGED <<accounts, next_id, deltas, audit_logs>>

\* a Transaction.reverse() that accepts every status
ReverseAlways(status) == FALSE

\* Transaction.reverse: if self.status != TransactionStatus.COMPLETED: raise
ReverseRaises(status) == status # "completed"

\* Transaction.reverse() on the row with this id, committed by its caller: the
\* method sets self.status and nothing else
Reverse(id) ==
    /\ \E t \in transactions :
          /\ t.id = id
          /\ IF ReverseRaises(t.status)
             THEN /\ response' = [result |-> "not_completed", id |-> t.id,
                                  status |-> t.status]
                  /\ UNCHANGED transactions
             ELSE /\ transactions' =
                        (transactions \ {t}) \cup {[t EXCEPT !.status = "reversed"]}
                  /\ response' = [result |-> "ok", id |-> t.id, status |-> "reversed"]
    /\ UNCHANGED <<accounts, next_id, deltas, pc, call, cache, row, flushed,
                   audit_logs, pending_audit>>

RepoStep(s) ==
    \/ \E op \in RepoOps, source \in RequestIds, destination \in RequestIds,
          amount \in Amounts :
            RepoBegin(s, op, source, destination, amount)
    \/ RepoCommit(s)
    \/ RepoTransferDestination(s)
    \/ RepoComplete(s)

----------------------------------------------------------------------------
\* the per-session steps of the TransactionService requests
ServiceStep(s) ==
    \/ \E op \in SingleOps, id \in RequestIds, amount \in Amounts,
          currency \in Currencies :
            ServiceBegin(s, op, id, amount, currency)
    \/ ServiceUpdateBalance(s)
    \/ \E source \in RequestIds, destination \in RequestIds,
          amount \in Amounts, currency \in Currencies :
            TransferBegin(s, source, destination, amount, currency)
    \/ TransferValidate(s)
    \/ TransferDebit(s)
    \/ TransferCredit(s)

\* accounts as AccountService.create leaves them (the balance every account
\* is opened with is a bound of the model), some of them deactivated since
InitAccounts ==
    \E c \in Currencies, active \in [AccountIds -> BOOLEAN] :
        accounts = [a \in AccountIds |->
            [balance |-> InitialBalance, is_active |-> active[a],
             currency |-> IF a = 1 THEN "USD" ELSE c, account_number |-> a]]

Init ==
    /\ InitAccounts
    /\ transactions = {}
    /\ next_id = 1
    /\ pc = [s \in Sessions |-> "idle"]
    /\ call = [s \in Sessions |-> NoCall]
    /\ cache = [s \in Sessions |-> EmptyCache]
    /\ row = [s \in Sessions |-> NoRow]
    /\ flushed = [s \in Sessions |-> FALSE]
    /\ response = [result |-> "none", id |-> 0, status |-> "none"]
    /\ deltas = {}
    /\ audit_logs = {}
    /\ pending_audit = [s \in Sessions |-> {}]

\* concurrent requests against the service
Next == \E s \in Sessions : ServiceStep(s)

Spec == Init /\ [][Next]_vars

\* one request at a time
SerialNext == ServiceStep("s1")

SerialSpec == Init /\ [][SerialNext]_vars

\* amounts up to the size at which a balance no longer holds every unit
RoundTripAmounts == 1 .. 2 ^ (MantissaBits + 1)

\* deposits and withdrawals of one caller, one request at a time
RoundTripNext ==
    \/ \E op \in {"deposit", "withdrawal"}, id \in AccountIds,
          amount \in RoundTripAmounts, currency \in Currencies :
            ServiceBegin("s1", op, id, amount, currency)
    \/ ServiceUpdateBalance("s1")

RoundTripSpec == Init /\ [][RoundTripNext]_vars

\* reference ids generate_reference_id may produce: two requests in the same
\* second draw the same 8 random characters or not
ReferenceIds == {"TXN-A", "TXN-B"}

\* get_by_reference_id: the rows the session sees, which are the committed ones
get_by_reference_id(reference_id) ==
    {t \in transactions : t.reference_id = reference_id}

\* an index that does not enforce uniqueness
UniqueUnchecked(reference_id) == FALSE

\* unique index on reference_id: a committed row holds the value
UniqueViolated(reference_id) == get_by_reference_id(reference_id) # {}

\* unique index on reference_id: another session's uncommitted INSERT of the
\* value makes this INSERT wait for that transaction to end
UniqueWaits(s, reference_id) ==
    \E o \in Sessions \ {s} :
        flushed[o] /\ row[o].reference_id = reference_id

\* create_deposit up to generate_reference_id: the checks, then a reference
\* id that no row visible to the session carries
RefGenerate(s, id, amount, currency, reference_id) ==
    /\ pc[s] = "idle"
    /\ next_id <= MaxTxns
    /\ UNCHANGED <<dbvars, row, flushed>>
    /\ IF NonPositive(amount) THEN Raise(s, "amount")
       ELSE IF id \notin AccountIds THEN Raise(s, "not_found")
       ELSE LET err == AccountChecks("deposit", Get(s, id), amount, currency)
            IN  IF err # "ok" THEN Raise(s, err)
                ELSE /\ get_by_reference_id(reference_id) = {}
                     /\ cache' = [cache EXCEPT ![s] = Loaded(s, id)]
                     /\ call' = [call EXCEPT ![s] =
                            [op |-> "deposit", account_id |-> id, amount |-> amount,
                             currency |-> currency, reference_id |-> reference_id]]
                     /\ pc' = [pc EXCEPT ![s] = "ref_insert"]
                     /\ UNCHANGED <<response, pending_audit>>

\* create_with_reference_id: db.add and db.flush, the INSERT of the row
RefInsert(s) ==
    /\ pc[s] = "ref_insert"
    /\ ~UniqueWaits(s, call[s].reference_id)
    /\ IF UniqueViolated(call[s].reference_id)
       THEN Raise(s, "integrity") /\ UNCHANGED dbvars
       ELSE /\ row' = [row EXCEPT ![s] =
                    NewRow("deposit", call[s].amount, call[s].currency,
                           call[s].account_id, 0)
                    @@ [reference_id |-> call[s].reference_id]]
            /\ flushed' = [flushed EXCEPT ![s] = TRUE]
            /\ next_id' = next_id + 1
            /\ pc' = [pc EXCEPT ![s] = "update_balance"]
            /\ UNCHANGED <<accounts, transactions, deltas, response, call, cache,
                           audit_logs, pending_audit>>

\* concurrent deposits, the reference id generated and inserted in two steps
ReferenceNext ==
    \E s \in Sessions :
        \/ \E id \in RequestIds, amount \in Amounts, currency \in Currencies,
              reference_id \in ReferenceIds :
                RefGenerate(s, id, amount, currency, reference_id)
        \/ RefInsert(s)
        \/ ServiceUpdateBalance(s)

ReferenceSpec == Init /\ [][ReferenceNext]_vars

----------------------------------------------------------------------------
(* AccountService.create *)

\* ids the accounts sequence can hand out
NewAccountIds ==
    (Cardinality(AccountIds) + 1) .. (Cardinality(AccountIds) + MaxAccounts)

\* numbers generate_account_number can draw: those of the existing accounts
\* and as many again
AccountNumbers == 1 .. (Cardinality(AccountIds) + MaxAccounts)

\* get_by_account_number: the committed rows with the number
get_by_account_number(account_number) ==
    {a \in DOMAIN accounts : accounts[a].account_number = account_number}

\* unique index on account_number: a committed row holds the number
NumberTaken(account_number) == get_by_account_number(account_number) # {}

\* unique index on account_number: another session's uncommitted INSERT of
\* the number makes this INSERT wait for that transaction to end
NumberWaits(s, account_number) ==
    \E o \in Sessions \ {s} :
        flushed[o] /\ row[o].account_number = account_number

\* an id of the sequence that no row has, committed or not
FreeAccountId(id) ==
    /\ id \notin DOMAIN accounts
    /\ \A o \in Sessions : flushed[o] => row[o].id # id

\* generate_account_number: draw until no account has the number
GenerateAccountNumber(s, account_number, currency) ==
    /\ pc[s] = "idle"
    /\ \E id \in NewAccountIds : FreeAccountId(id)
    /\ get_by_account_number(account_number) = {}
    /\ call' = [call EXCEPT ![s] =
            [op |-> "create", account_number |-> account_number,
             currency |-> currency]]
    /\ pc' = [pc EXCEPT ![s] = "create_with_owner"]
    /\ UNCHANGED <<dbvars, cache, row, flushed, response, pending_audit>>

\* create_with_owner and log_action: db.add and db.flush of the account row,
\* then of the audit row; an IntegrityError of the flush is caught nowhere
CreateWithOwner(s, id) ==
    /\ pc[s] = "create_with_owner"
    /\ FreeAccountId(id)
    /\ ~NumberWaits(s, call[s].account_number)
    /\ IF NumberTaken(call[s].account_number)
       THEN Raise(s, "integrity") /\ UNCHANGED dbvars
       ELSE /\ row' = [row EXCEPT ![s] =
                    [id |-> id, balance |-> InitialBalance, is_active |-> TRUE,
                     currency |-> call[s].currency,
                     account_number |-> call[s].account_number]]
            /\ flushed' = [flushed EXCEPT ![s] = TRUE]
            /\ pending_audit' = [pending_audit EXCEPT ![s] =
                    {[entity_type |-> "account", entity_id |-> id, txn |-> 0,
                      amount |-> 0]}]
            /\ pc' = [pc EXCEPT ![s] = "create_return"]
            /\ UNCHANGED <<dbvars, call, cache, response>>

\* the account is returned and the caller's session ends: get_db closes it
\* (what was flushed is rolled back), get_transactional_db or a later commit
\* on the same session commits it
CreateReturn(s, commit) ==
    /\ pc[s] = "create_return"
    /\ IF commit
       THEN /\ accounts' = accounts @@
                    (row[s].id :> [balance |-> row[s].balance,
                                   is_active |-> row[s].is_active,
                                   currency |-> row[s].currency,
                                   account_number |-> row[s].account_number])
            /\ audit_logs' = CommittedAudit(audit_logs, pending_audit[s])
       ELSE UNCHANGED <<accounts, audit_logs>>
    /\ response' = [result |-> "ok", id |-> row[s].id, status |-> "none"]
    /\ pc' = [pc EXCEPT ![s] = "idle"]
    /\ call' = [call EXCEPT ![s] = NoCall]
    /\ row' = [row EXCEPT ![s] = NoRow]
    /\ flushed' = [flushed EXCEPT ![s] = FALSE]
    /\ pending_audit' = [pending_audit EXCEPT ![s] = {}]
    /\ UNCHANGED <<transactions, next_id, deltas, cache>>

\* concurrent account creations
CreateNext ==
    \E s \in Sessions :
        \/ \E account_number \in AccountNumbers, currency \in Currencies :
                GenerateAccountNumber(s, account_number, currency)
        \/ \E id \in NewAccountIds : CreateWithOwner(s, id)
        \/ \E commit \in BOOLEAN : CreateReturn(s, commit)

CreateSpec == Init /\ [][CreateNext]_vars

\* one request at a time, with the administrative requests in between
AdminNext ==
    \/ ServiceStep("s1")
    \/ \E id \in AccountIds : Deactivate(id)
    \/ \E id \in AccountIds : Reactivate(id)
    \/ \E id \in 1 .. MaxTxns, status \in TransactionStatus :
            UpdateTransactionStatus(id, status)

AdminSpec == Init /\ [][AdminNext]_vars

\* one request at a time, with the account administration in between
AccountNext ==
    \/ ServiceStep("s1")
    \/ \E id \in AccountIds : Deactivate(id)
    \/ \E id \in AccountIds : Reactivate(id)
    \/ \E id \in AccountIds, currency \in Currencies : UpdateAccount(id, currency)

AccountSpec == Init /\ [][AccountNext]_vars

\* concurrent callers of the repository API
RepoNext ==
    \/ \E s \in Sessions : RepoStep(s)
    \/ \E id \in 1 .. MaxTxns : Reverse(id)

\* the repository API reads neither is_active nor currency
RepoInit ==
    /\ Init
    /\ \A a \in AccountIds : accounts[a].is_active /\ accounts[a].currency = "USD"

RepoSpec == RepoInit /\ [][RepoNext]_vars

----------------------------------------------------------------------------
(* Properties *)

Idle == \A s \in Sessions : pc[s] = "idle"

Errors == {"amount", "not_found", "inactive", "currency", "insufficient", "integrity"}

RECURSIVE SumAmounts(_)
SumAmounts(rows) ==
    IF rows = {} THEN 0
    ELSE LET t == CHOOSE x \in rows : TRUE IN t.amount + SumAmounts(rows \ {t})

\* what a committed row of the service says about the balance of account a
Effect(t, a) ==
    IF t.status # "completed" THEN 0
    ELSE (IF t.transaction_type = "deposit" /\ t.account_id = a THEN t.amount ELSE 0)
       + (IF t.transaction_type \in {"withdrawal", "payment", "transfer"}
             /\ t.account_id = a THEN 0 - t.amount ELSE 0)
       + (IF t.transaction_type = "transfer" /\ t.recipient_account_id = a
          THEN t.amount ELSE 0)

RECURSIVE LedgerSum(_, _)
LedgerSum(rows, a) ==
    IF rows = {} THEN 0
    ELSE LET t == CHOOSE x \in rows : TRUE IN Effect(t, a) + LedgerSum(rows \ {t}, a)

RECURSIVE TotalBalance(_)
TotalBalance(ids) ==
    IF ids = {} THEN 0
    ELSE LET a == CHOOSE x \in ids : TRUE
         IN  accounts[a].balance + TotalBalance(ids \ {a})

Debit(t) == [txn |-> t.id, account |-> t.account_id, amount |-> 0 - t.amount]

Credit(t) == [txn |-> t.id, account |-> t.recipient_account_id, amount |-> t.amount]

\* the balance writes a committed row of the service stands for
RequiredDeltas(t) ==
    IF t.transaction_type = "transfer" THEN {Debit(t), Credit(t)}
    ELSE IF t.transaction_type = "deposit"
    THEN {[txn |-> t.id, account |-> t.account_id, amount |-> t.amount]}
    ELSE {Debit(t)}

\* C1: in every committed state every account's balance is >= 0, whatever the
\* interleaving of the deposits, withdrawals, transfers and payments
C1_BalanceNonNegative == \A a \in AccountIds : accounts[a].balance >= 0

\* two requests debit the same account at once, for more than it holds
C1_Witness ==
    \E a \in AccountIds :
        /\ \A s \in Sessions :
              /\ pc[s] = "update_balance"
              /\ call[s].op \in {"withdrawal", "payment"}
              /\ call[s].account_id = a
        /\ call["s1"].amount + call["s2"].amount > accounts[a].balance

\* C2: two concurrent deposits of X and Y into the same account always end
\* with balance = initial + X + Y
C2_ConcurrentDepositsAddUp ==
    \A a \in AccountIds :
        ( /\ Idle
          /\ Cardinality(transactions) = 2
          /\ \A t \in transactions :
                t.transaction_type = "deposit" /\ t.account_id = a )
        => accounts[a].balance = InitialBalance + SumAmounts(transactions)

\* C3: in every committed state each balance equals the initial balance plus
\* the signed amounts of the committed completed transactions that touch it
C3_BalanceMatchesLedger ==
    \A a \in AccountIds :
        accounts[a].balance = InitialBalance + LedgerSum(transactions, a)

\* C4: completed transfers between distinct accounts neither create nor destroy
\* money: once every request has returned, a history made of such transfers
\* alone leaves the total of the balances where it was
C4_TransfersConserve ==
    ( /\ Idle
      /\ \A t \in transactions :
            /\ t.transaction_type = "transfer"
            /\ t.status = "completed"
            /\ t.account_id # t.recipient_account_id )
    => TotalBalance(AccountIds) = Cardinality(AccountIds) * InitialBalance

\* C5: no committed state has only one side of a transfer applied
C5_NoOneSidedTransfer ==
    \A t \in transactions :
        (t.transaction_type = "transfer" /\ t.account_id # t.recipient_account_id)
        => (Debit(t) \in deltas <=> Credit(t) \in deltas)

\* C6: a row is committed with status completed only together with all of the
\* balance writes it requires
C6_CompletedHasAllDeltas ==
    \A t \in transactions :
        t.status = "completed" => RequiredDeltas(t) \subseteq deltas

\* the step ends a call of session s with an error
Fails(s) ==
    /\ pc'[s] = "idle"
    /\ response'.result \in Errors
    /\ pc[s] # "idle" \/ response' # response

\* nothing of the call of session s is committed
WroteNothing(s) ==
    \/ row[s] = NoRow
    \/ /\ \A t \in transactions' : t.id # row[s].id
       /\ \A d \in deltas' : d.txn # row[s].id

C8_FailedHasNoBalanceEffect ==
    \A t \in transactions :
        t.status = "failed" => \A d \in deltas : d.txn # t.id

\* the transitions the state machine of a transaction allows
LegalTransitions ==
    {<<"pending", "completed">>, <<"pending", "failed">>, <<"completed", "reversed">>}

\* C9: the status of a transaction only changes along pending->completed,
\* pending->failed or completed->reversed, and is never outside
\* {pending, completed, failed, reversed}
C9_LegalStatusTransitions ==
    [][\A t \in transactions : \A u \in transactions' :
          /\ u.status \in {"pending", "completed", "failed", "reversed"}
          /\ (u.id = t.id /\ u.status # t.status)
                => <<t.status, u.status>> \in LegalTransitions]_vars

\* C10: a call that returns a transaction returns it with a final status, and
\* the row it created is not pending once the call has returned
C10_ReturnedNeverPending ==
    response.result = "ok" =>
        /\ response.status \in {"completed", "failed", "reversed", "cancelled"}
        /\ \A t \in transactions : t.id = response.id => t.status # "pending"

\* a call has returned the row it committed
C10_Witness ==
    /\ response.result = "ok"
    /\ \E t \in transactions : t.id = response.id /\ t.status = response.status

\* C11: once the requests have ended, every committed balance change and every
\* committed transaction row has its audit entry committed as well
C11_AuditedMutations ==
    Idle =>
        /\ \A d \in deltas : BalanceAudit(d.account, d.txn, d.amount) \in audit_logs
        /\ \A t \in transactions : TransactionAudit(t) \in audit_logs

\* C12: the audit log is append-only: no operation removes or changes a
\* committed audit entry
C12_AuditAppendOnly == [][audit_logs \subseteq audit_logs']_vars

\* an audit entry is committed, and requests that commit have run after it
C12_Witness ==
    /\ audit_logs # {}
    /\ Cardinality(transactions) = MaxTxns
    /\ \E t \in transactions : t.status # "completed"

\* C13: no balance change is committed on an account that is inactive when the
\* change is applied
C13_NoMutationWhileInactive ==
    [][\A a \in AccountIds :
          accounts'[a].balance # accounts[a].balance => accounts[a].is_active]_vars

\* C14: reverse is permitted only on a completed transaction: on a pending,
\* failed or reversed one it is rejected and changes neither a status nor a
\* balance
C14_ReverseOnlyCompleted ==
    [][/\ \A t \in transactions : \A u \in transactions' :
             (u.id = t.id /\ u.status = "reversed")
                => t.status \in {"completed", "reversed"}
       /\ (response'.result = "not_completed" /\ response' # response)
             => accounts' = accounts /\ transactions' = transactions]_vars

\* the reversal of a pending row and of a reversed row were both refused
C14_Witness ==
    /\ response.result = "not_completed"
    /\ response.status = "pending"
    /\ \E t \in transactions : t.status = "reversed"

\* C15: reversing a completed transaction adds a new transaction with the
\* inverse deltas, applies them to the accounts and sets the original to
\* reversed, the original's amount and accounts staying as they are
C15_ReverseCompensates ==
    [][\A t \in transactions : \A u \in transactions' :
          (u.id = t.id /\ t.status = "completed" /\ u.status = "reversed")
          => /\ u = [t EXCEPT !.status = "reversed"]
             /\ \E r \in transactions' :
                   /\ \A x \in transactions : x.id # r.id
                   /\ r.amount = t.amount
                   /\ r.source_account_id = t.destination_account_id
                   /\ r.destination_account_id = t.source_account_id
             /\ \A a \in AccountIds :
                   accounts'[a].balance = accounts[a].balance
                       + (IF a = t.source_account_id THEN t.amount ELSE 0)
                       - (IF a = t.destination_account_id THEN t.amount ELSE 0)]_vars

C17_OverdrawRejected ==
    [][\A d \in deltas' \ deltas :
          d.amount < 0 => accounts[d.account].balance + d.amount >= 0]_vars

\* C18: an operation whose currency differs from the currency of an account it
\* touches is rejected: no balance write is committed on an account whose
\* currency is not the transaction's
C18_CurrencyMatches ==
    [][\A d \in deltas' \ deltas : \A t \in transactions' :
          t.id = d.txn => accounts[d.account].currency = t.currency]_vars

\* C19: the currency of an account never changes
C19_CurrencyImmutable ==
    [][\A a \in AccountIds : accounts'[a].currency = accounts[a].currency]_vars

\* the completed rows that are inflow of account a: deposits on it and transfers
\* into it
ExpectedInflow(a) ==
    {t \in transactions :
        /\ t.status = "completed"
        /\ \/ t.transaction_type = "deposit" /\ t.account_id = a
           \/ t.transaction_type = "transfer" /\ t.recipient_account_id = a}

\* the completed rows that are outflow of account a: withdrawals, payments and
\* fees on it and transfers out of it
ExpectedOutflow(a) ==
    {t \in transactions :
        /\ t.status = "completed"
        /\ t.account_id = a
        /\ t.transaction_type \in {"withdrawal", "payment", "fee", "transfer"}}

\* C20: the statistics of an account count as inflow its completed deposits and
\* the completed transfers into it, and as outflow its completed withdrawals,
\* payments, fees and the completed transfers out of it (transfers between
\* distinct accounts)
C20_StatsCountTransfers ==
    (Idle /\ \A t \in transactions : t.account_id # t.recipient_account_id)
    => \A a \in AccountIds :
          /\ total_inflow(a) = SumOf(ExpectedInflow(a))
          /\ total_outflow(a) = SumOf(ExpectedOutflow(a))

\* C21: only completed transactions enter the statistics: a row that is pending,
\* failed, reversed or cancelled is in none of the totals or counts, so the
\* statistics are those of the completed rows alone
C21_StatsOnlyCompleted ==
    \A a \in AccountIds :
        LET counted == InflowRows(a) \cup OutflowRows(a)
                       \cup UNION {CountRows(a, t_type) : t_type \in TransactionType}
            completed == {t \in transactions : t.status = "completed"}
            stats == get_transaction_stats(a)
        IN  /\ counted \subseteq completed
            /\ stats.net_flow = stats.total_inflow - stats.total_outflow

\* an account has a deposit that is no longer completed next to a completed one
C21_Witness ==
    \E a \in AccountIds : \E t \in transactions, u \in transactions :
        /\ t.account_id = a /\ u.account_id = a
        /\ t.transaction_type = "deposit" /\ u.transaction_type = "deposit"
        /\ t.status = "completed"
        /\ u.status \in {"pending", "failed", "cancelled"}

\* the rows of the service that touch account a
Touching(a) == {t \in transactions : t.account_id = a \/ t.recipient_account_id = a}

\* C22: for an account whose transactions are completed deposits and
\* withdrawals only, the statistics give the sum of the deposits as inflow, the
\* sum of the withdrawals as outflow and their difference as net flow, under
\* the keys total_inflow, total_outflow, net_flow and transaction_counts
C22_DepositWithdrawalStats ==
    \A a \in AccountIds :
        ( /\ Idle
          /\ \A t \in Touching(a) :
                t.status = "completed"
                /\ t.transaction_type \in {"deposit", "withdrawal"} )
        => LET stats == get_transaction_stats(a)
               deposits == {t \in Touching(a) : t.transaction_type = "deposit"}
               withdrawals == {t \in Touching(a) : t.transaction_type = "withdrawal"}
           IN  /\ {"total_inflow", "total_outflow", "net_flow", "transaction_counts"}
                     \subseteq DOMAIN stats
               /\ stats.total_inflow = SumOf(deposits)
               /\ stats.total_outflow = SumOf(withdrawals)
               /\ stats.net_flow = SumOf(deposits) - SumOf(withdrawals)

\* an account with one completed deposit and one completed withdrawal
C22_Witness ==
    /\ Idle
    /\ \E a \in AccountIds : \E d \in Touching(a), w \in Touching(a) :
          /\ d.transaction_type = "deposit" /\ w.transaction_type = "withdrawal"
          /\ d.status = "completed" /\ w.status = "completed"

\* C23: a transfer whose source and destination are the same account is
\* rejected: it leaves no transaction row, flushed or committed
C23_SameAccountRejected ==
    /\ \A t \in transactions :
          t.transaction_type = "transfer" => t.account_id # t.recipient_account_id
    /\ \A s \in Sessions :
          (row[s] # NoRow /\ row[s].transaction_type = "transfer")
             => row[s].account_id # row[s].recipient_account_id

\* C24: a successful transfer of m from A to a different account B takes exactly
\* m off A's balance and puts exactly m onto B's, under one completed row that
\* names A as account and B as recipient; no other account changes
C24_TransferEffect ==
    [][\A d \in deltas' \ deltas : \A t \in transactions' :
          (t.id = d.txn /\ t.transaction_type = "transfer"
                        /\ t.account_id # t.recipient_account_id)
          => /\ d \in {Debit(t), Credit(t)}
             /\ t.status = "completed"
             /\ accounts'[d.account].balance = accounts[d.account].balance + d.amount
             /\ \A a \in AccountIds \ {d.account} :
                   accounts'[a].balance = accounts[a].balance]_vars

\* C25: a successful deposit of m adds exactly m to the balance of its account,
\* a successful withdrawal or payment of m takes exactly m off it, under one
\* completed row of that type; no other account changes
C25_SingleOpEffect ==
    [][\A d \in deltas' \ deltas : \A t \in transactions' :
          (t.id = d.txn /\ t.transaction_type \in SingleOps)
          => /\ d.account = t.account_id
             /\ d.amount = Signed(t.transaction_type, t.amount)
             /\ t.status = "completed"
             /\ t \notin transactions
             /\ accounts'[d.account].balance = accounts[d.account].balance + d.amount
             /\ \A a \in AccountIds \ {d.account} :
                   accounts'[a].balance = accounts[a].balance]_vars

\* the first of the two accounts of a transfer in the fixed global order
FirstInOrder(t) ==
    IF t.account_id < t.recipient_account_id THEN t.account_id
    ELSE t.recipient_account_id

\* C29: the two balance writes of a transfer are applied in ascending order of
\* account id, whatever the direction of the transfer
C29_AscendingOrder ==
    \A t \in transactions :
        (t.transaction_type = "transfer" /\ t.account_id # t.recipient_account_id)
        => \A d \in deltas :
              d.txn = t.id => \E e \in deltas : e.txn = t.id /\ e.account = FirstInOrder(t)

\* C30: once the requests have returned, the net flow of the statistics of an
\* account equals its balance minus the balance it was opened with
C30_StatsReconcile ==
    Idle => \A a \in AccountIds :
                net_flow(a) = accounts[a].balance - InitialBalance

\* C26: a deposit of A followed by a withdrawal of A from the same account,
\* nothing else touching the account, leaves the balance exactly where it was
C26_RoundTrip ==
    \A a \in AccountIds :
        ( /\ Idle
          /\ Cardinality(Touching(a)) = 2
          /\ \E d \in Touching(a), w \in Touching(a) :
                /\ d.id < w.id
                /\ d.transaction_type = "deposit"
                /\ w.transaction_type = "withdrawal"
                /\ d.amount = w.amount )
        => accounts[a].balance = InitialBalance

\* C27: no two transaction rows, committed or inserted and not yet committed,
\* share a reference id, also when two requests generated the same id before
\* either inserted
C27_ReferenceUnique ==
    \A t1, t2 \in transactions \cup {row[s] : s \in {o \in Sessions : flushed[o]}} :
        t1.reference_id = t2.reference_id => t1 = t2

\* two requests hold the same generated reference id and one has committed
\* its row
C27_Witness ==
    \E s \in Sessions, t \in transactions :
        /\ pc[s] = "ref_insert"
        /\ call[s].reference_id = t.reference_id

\* C28: no account creation fails on an account-number collision, and the
\* account rows, committed or inserted and not yet committed, carry distinct
\* account numbers
C28_NoCollisionFailure ==
    /\ response.result # "integrity"
    /\ \A r1, r2 \in {[id |-> a, account_number |-> accounts[a].account_number] :
                         a \in DOMAIN accounts}
                     \cup {[id |-> row[s].id,
                            account_number |-> row[s].account_number] :
                                s \in {o \in Sessions : flushed[o]}} :
            r1.account_number = r2.account_number => r1 = r2

====
